---------------------------- MODULE Spec2Model ----------------------------
(***************************************************************************)
(* Model of backend/app/workers/monitor_alert_checker.py:                  *)
(* the condition evaluator (_evaluate_condition), the per-rule alert state *)
(* machine (_handle_triggered_alert and the clear branch of run) and the   *)
(* checker loop (run).                                                      *)
(*                                                                         *)
(* A Python str is a sequence of elements.  An element is a one-character  *)
(* string, or one whole placeholder "${monitor:<id>}" (the unit the regex  *)
(* of lines 82 and 187 matches and line 107 replaces).                      *)
(* A float is an integer number of tenths (620 is 62.0).                    *)
(***************************************************************************)
EXTENDS Integers, Sequences, FiniteSets, TLC

-----------------------------------------------------------------------------
(* Bounds *)

MaxTime == 3

-----------------------------------------------------------------------------
(* Characters and strings *)

MonitorIds == {"m1", "m2"}

Placeholder == [m1 |-> "${monitor:m1}", m2 |-> "${monitor:m2}"]

IsPlaceholder(c) == \E m \in MonitorIds : Placeholder[m] = c

RefId(c) == CHOOSE m \in MonitorIds : Placeholder[m] = c

DigitChar == <<"0", "1", "2", "3", "4", "5", "6", "7", "8", "9">>

Digits == {DigitChar[i] : i \in 1..10}

Letters == {"o", "r", "a", "n", "d", "x", "e"}

DigitVal(c) == (CHOOSE i \in 1..10 : DigitChar[i] = c) - 1

RECURSIVE NatStr(_)
NatStr(n) ==
    IF n < 10 THEN <<DigitChar[n + 1]>>
    ELSE NatStr(n \div 10) \o <<DigitChar[(n % 10) + 1]>>

Abs(n) == IF n < 0 THEN -n ELSE n

(* str(latest_value.value) of a float given in tenths: "62.0", "-5.5" *)
PyStr(v) ==
    (IF v < 0 THEN <<"-">> ELSE <<>>)
        \o NatStr(Abs(v) \div 10) \o <<".">> \o NatStr(Abs(v) % 10)

IsPrefix(p, s) == Len(p) <= Len(s) /\ SubSeq(s, 1, Len(p)) = p

Drop(s, n) == SubSeq(s, n + 1, Len(s))

(* str.replace(pat, rep): left to right, non-overlapping; pat is not empty *)
RECURSIVE Replace(_, _, _)
Replace(s, pat, rep) ==
    IF s = <<>> THEN <<>>
    ELSE IF IsPrefix(pat, s) THEN rep \o Replace(Drop(s, Len(pat)), pat, rep)
    ELSE <<Head(s)>> \o Replace(Tail(s), pat, rep)

(* re.findall(r'\$\{monitor:([^}]+)\}', condition): the ids, in order *)
RECURSIVE FindRefs(_)
FindRefs(s) ==
    IF s = <<>> THEN <<>>
    ELSE IF IsPlaceholder(Head(s)) THEN <<RefId(Head(s))>> \o FindRefs(Tail(s))
    ELSE FindRefs(Tail(s))

-----------------------------------------------------------------------------
(* Python's eval() on the strings that pass the character check.           *)
(* Tokens and values are records of one shape.                             *)

Tok(t, m, e, f) == [t |-> t, m |-> m, e |-> e, f |-> f]

Op(t) == Tok(t, 0, 0, FALSE)

NumChars == Digits \cup {"."}

RECURSIVE RunLen(_, _)
RunLen(s, S) ==
    IF s = <<>> \/ Head(s) \notin S THEN 0 ELSE 1 + RunLen(Tail(s), S)

RECURSIVE DigitsVal(_, _)
DigitsVal(s, acc) ==
    IF s = <<>> THEN acc
    ELSE IF Head(s) = "." THEN DigitsVal(Tail(s), acc)
    ELSE DigitsVal(Tail(s), 10 * acc + DigitVal(Head(s)))

RECURSIVE Pow(_, _)
Pow(b, n) == IF n = 0 THEN 1 ELSE b * Pow(b, n - 1)

(* a run of digits and dots as a Python number literal *)
NumToken(run) ==
    LET dots   == Len(SelectSeq(run, LAMBDA c : c = "."))
        ndig   == Len(run) - dots
        dotpos == CHOOSE i \in 1..Len(run) : run[i] = "."
    IN  IF dots > 1 \/ ndig = 0 THEN Op("bad")
        ELSE IF dots = 0
        THEN IF Len(run) > 1 /\ run[1] = "0" /\ DigitsVal(run, 0) # 0
             THEN Op("bad")
             ELSE Tok("num", DigitsVal(run, 0), 0, FALSE)
        ELSE Tok("num", DigitsVal(run, 0), Len(run) - dotpos, TRUE)

WordToken(run) ==
    IF run = <<"o", "r">> THEN Op("or")
    ELSE IF run = <<"a", "n", "d">> THEN Op("and")
    ELSE Op("name")

TwoCharOps == {<<">", "=">>, <<"<", "=">>, <<"=", "=">>, <<">", ">">>, <<"<", "<">>}

OneCharOps == {">", "<", "|", "&", "-"}

RECURSIVE Lex(_)
Lex(s) ==
    IF s = <<>> THEN <<>>
    ELSE LET c == Head(s) IN
        IF c = " " THEN Lex(Tail(s))
        ELSE IF c \in NumChars
        THEN LET n == RunLen(s, NumChars)
             IN  <<NumToken(SubSeq(s, 1, n))>> \o Lex(Drop(s, n))
        ELSE IF c \in Letters
        THEN LET n == RunLen(s, Letters)
             IN  <<WordToken(SubSeq(s, 1, n))>> \o Lex(Drop(s, n))
        ELSE IF Len(s) >= 2 /\ SubSeq(s, 1, 2) \in TwoCharOps
        THEN <<Op(s[1] \o s[2])>> \o Lex(Drop(s, 2))
        ELSE IF c \in OneCharOps THEN <<Op(c)>> \o Lex(Tail(s))
        ELSE <<Op("bad")>> \o Lex(Tail(s))

(* the lexer above is exact when no number touches a word ("1or", "0o17") *)
RECURSIVE InLexDomain(_)
InLexDomain(s) ==
    \/ Len(s) < 2
    \/ /\ ~(s[1] \in NumChars /\ s[2] \in Letters)
       /\ ~(s[1] \in Letters /\ s[2] \in NumChars)
       /\ InLexDomain(Tail(s))

(* values: a number m / 10^e (f: it is a float), a bool, a runtime error *)
Val(k, m, e, f, b) == [k |-> k, m |-> m, e |-> e, f |-> f, b |-> b]

NumV(m, e, f) == Val("num", m, e, f, FALSE)

BoolV(b) == Val("bool", 0, 0, FALSE, b)

ErrV == Val("err", 0, 0, FALSE, FALSE)

Res(ok, v, rest) == [ok |-> ok, v |-> v, rest |-> rest]

Fail == Res(FALSE, ErrV, <<>>)

Scaled(a, b) == a.m * Pow(10, b.e)

Compare(op, a, b) ==
    LET x == Scaled(a, b)
        y == Scaled(b, a)
    IN  CASE op = ">"  -> x > y
          [] op = "<"  -> x < y
          [] op = ">=" -> x >= y
          [] op = "<=" -> x <= y
          [] op = "==" -> x = y
          [] OTHER     -> x # y

RECURSIVE BitAnd(_, _)
BitAnd(a, b) ==
    IF a = 0 \/ b = 0 THEN 0
    ELSE IF a = -1 THEN b
    ELSE IF b = -1 THEN a
    ELSE (a % 2) * (b % 2) + 2 * BitAnd(a \div 2, b \div 2)

RECURSIVE BitOr(_, _)
BitOr(a, b) ==
    IF a = 0 THEN b
    ELSE IF b = 0 THEN a
    ELSE IF a = -1 \/ b = -1 THEN -1
    ELSE (IF a % 2 = 1 \/ b % 2 = 1 THEN 1 ELSE 0) + 2 * BitOr(a \div 2, b \div 2)

Binary(op, a, b) ==
    IF a.k = "err" \/ b.k = "err" THEN ErrV
    ELSE IF op = "-" THEN NumV(Scaled(a, b) - Scaled(b, a), a.e + b.e, a.f \/ b.f)
    ELSE IF a.f \/ b.f THEN ErrV
    ELSE CASE op = "|"  -> NumV(BitOr(a.m, b.m), 0, FALSE)
           [] op = "&"  -> NumV(BitAnd(a.m, b.m), 0, FALSE)
           [] op = "<<" -> IF b.m < 0 THEN ErrV ELSE NumV(a.m * Pow(2, b.m), 0, FALSE)
           [] OTHER     -> IF b.m < 0 THEN ErrV ELSE NumV(a.m \div Pow(2, b.m), 0, FALSE)

Negate(a) == IF a.k = "err" THEN ErrV ELSE NumV(-a.m, a.e, a.f)

(* "T", "F" or "E" (a runtime error) *)
Truth(v) ==
    CASE v.k = "err"  -> "E"
      [] v.k = "bool" -> IF v.b THEN "T" ELSE "F"
      [] OTHER        -> IF v.m # 0 THEN "T" ELSE "F"

OfTruth(t) == IF t = "E" THEN ErrV ELSE BoolV(t = "T")

HeadIs(ts, S) == ts # <<>> /\ Head(ts).t \in S

CmpOps == {">", "<", ">=", "<=", "=="}

(* Python's binary operators that can appear, loosest first; the operand   *)
(* of the tightest level is a factor: a number, a name, or -factor         *)
LevelOps == <<{"or"}, {"and"}, CmpOps, {"|"}, {"&"}, {"<<", ">>"}, {"-"}>>

FactorLevel == Len(LevelOps) + 1

(* the truth of a chain of operands so far; "-" before the first operator  *)
(* x or y: y is evaluated only when x is false                             *)
(* x and y: y is evaluated only when x is true                             *)
(* a op b op c is (a op b) and (b op c); c is not evaluated once it is false *)
StepTruth(lvl, op, sofar, left, v) ==
    CASE lvl = 1 -> IF sofar = "F" THEN Truth(v) ELSE sofar
      [] lvl = 2 -> IF sofar = "T" THEN Truth(v) ELSE sofar
      [] lvl = 3 -> IF sofar \in {"F", "E"} THEN sofar
                    ELSE IF left.k = "err" \/ v.k = "err" THEN "E"
                    ELSE IF Compare(op, left, v) THEN "T" ELSE "F"
      [] OTHER   -> sofar

StepValue(lvl, op, left, v) == IF lvl <= 3 THEN v ELSE Binary(op, left, v)

StartTruth(lvl, v) == IF lvl <= 2 THEN Truth(v) ELSE "-"

Finish(lvl, sofar, left) == IF sofar = "-" THEN left ELSE OfTruth(sofar)

(* recursive descent over the token list: the value and the tokens left    *)
RECURSIVE Parse(_, _), Chain(_, _, _, _)
Parse(lvl, ts) ==
    IF lvl = FactorLevel
    THEN IF ts = <<>> THEN Fail
         ELSE IF Head(ts).t = "-"
         THEN LET r == Parse(lvl, Tail(ts))
              IN  IF r.ok THEN Res(TRUE, Negate(r.v), r.rest) ELSE Fail
         ELSE IF Head(ts).t = "num"
         THEN Res(TRUE, NumV(Head(ts).m, Head(ts).e, Head(ts).f), Tail(ts))
         ELSE IF Head(ts).t = "name" THEN Res(TRUE, ErrV, Tail(ts))
         ELSE Fail
    ELSE LET r == Parse(lvl + 1, ts)
         IN  IF r.ok THEN Chain(lvl, StartTruth(lvl, r.v), r.v, r.rest) ELSE Fail

Chain(lvl, sofar, left, us) ==
    IF ~HeadIs(us, LevelOps[lvl]) THEN Res(TRUE, Finish(lvl, sofar, left), us)
    ELSE LET q == Parse(lvl + 1, Tail(us))
         IN  IF q.ok
             THEN Chain(lvl, StepTruth(lvl, Head(us).t, sofar, left, q.v),
                        StepValue(lvl, Head(us).t, left, q.v), q.rest)
             ELSE Fail

(* bool(eval(s)): "T", "F", or "E" when eval raises *)
PyEval(s) ==
    LET ts == Lex(s)
        r  == Parse(1, ts)
    IN  IF \E i \in 1..Len(ts) : ts[i].t = "bad" THEN "E"
        ELSE IF ~r.ok \/ r.rest # <<>> THEN "E"
        ELSE Truth(r.v)

-----------------------------------------------------------------------------
(* The datastore: per monitor id, whether a Monitor row exists and what    *)
(* its latest MonitorValue is, in tenths.                                  *)

NoMonitor == [status |-> "NoMonitor", value |-> 0]

NoSample == [status |-> "NoSample", value |-> 0]

NullValue == [status |-> "Null", value |-> 0]

Sample(v) == [status |-> "Value", value |-> v]

LacksData(md) == md.status # "Value"

-----------------------------------------------------------------------------
(* _evaluate_condition *)

safe_chars == Digits \cup {".", ">", "<", "=", "|", "&", " ", "-", "o", "r"}

Operators ==
    << <<"|", "|">>, <<"&", "&">>, <<">", "=">>, <<"<", "=">>, <<"=", "=">>,
       <<"!", "=">>, <<">">>, <<"<">>, <<" ", "o", "r", " ">>,
       <<" ", "a", "n", "d", " ">> >>

(* lines 117-119: computed, and never read again *)
RECURSIVE check_str(_, _)
check_str(s, ops) ==
    IF ops = <<>> THEN s ELSE check_str(Replace(s, Head(ops), <<>>), Tail(ops))

AllSafe(s) == \A i \in 1..Len(s) : s[i] \in safe_chars

IsSafe_any(evaluated_condition) ==
    \E i \in 1..Len(evaluated_condition) : evaluated_condition[i] \in safe_chars

(* line 121 *)
IsSafe(evaluated_condition) == AllSafe(evaluated_condition)

(* lines 126-127 *)
ReplaceLogical(s) ==
    LET s1 == Replace(s, <<" ", "o", "r", " ">>, <<" ", "o", "r", " ">>)
        s2 == Replace(s1, <<" ", "|", "|", " ">>, <<" ", "o", "r", " ">>)
        s3 == Replace(s2, <<" ", "a", "n", "d", " ">>, <<" ", "a", "n", "d", " ">>)
    IN  Replace(s3, <<" ", "&", "&", " ">>, <<" ", "a", "n", "d", " ">>)

Outcome(result, outcome, evalCalled, expr) ==
    [result |-> result, outcome |-> outcome, evalCalled |-> evalCalled, expr |-> expr]

(* a null value read as 0 *)
RECURSIVE Substitute_nullAsZero(_, _, _)
Substitute_nullAsZero(monitor_refs, evaluated_condition, db) ==
    IF monitor_refs = <<>> THEN Outcome(TRUE, "substituted", FALSE, evaluated_condition)
    ELSE LET monitor_id == Head(monitor_refs) IN
        IF db[monitor_id].status = "NoMonitor"
        THEN Outcome(FALSE, "no_monitor", FALSE, evaluated_condition)
        ELSE IF db[monitor_id].status = "NoSample"
        THEN Outcome(FALSE, "no_value", FALSE, evaluated_condition)
        ELSE Substitute_nullAsZero(Tail(monitor_refs),
                        Replace(evaluated_condition, <<Placeholder[monitor_id]>>,
                                PyStr(db[monitor_id].value)),
                        db)

(* lines 90-110: the monitors in the order of their references *)
RECURSIVE Substitute(_, _, _)
Substitute(monitor_refs, evaluated_condition, db) ==
    IF monitor_refs = <<>> THEN Outcome(TRUE, "substituted", FALSE, evaluated_condition)
    ELSE LET monitor_id == Head(monitor_refs) IN
        IF db[monitor_id].status = "NoMonitor"
        THEN Outcome(FALSE, "no_monitor", FALSE, evaluated_condition)
        ELSE IF db[monitor_id].status \in {"NoSample", "Null"}
        THEN Outcome(FALSE, "no_value", FALSE, evaluated_condition)
        ELSE Substitute(Tail(monitor_refs),
                        Replace(evaluated_condition, <<Placeholder[monitor_id]>>,
                                PyStr(db[monitor_id].value)),
                        db)

(* lines 113-134 *)
EvaluateExpression(evaluated_condition) ==
    IF ~IsSafe(evaluated_condition)
    THEN Outcome(FALSE, "unsafe", FALSE, evaluated_condition)
    ELSE LET expr == ReplaceLogical(evaluated_condition)
             r    == PyEval(expr)
         IN  IF r = "E" THEN Outcome(FALSE, "eval_error", TRUE, expr)
             ELSE Outcome(r = "T", "evaluated", TRUE, expr)

(* lines 68-134 *)
EvaluateCondition(condition, db) ==
    LET monitor_refs == FindRefs(condition)
        sub          == Substitute(monitor_refs, condition, db)
    IN  IF monitor_refs = <<>> THEN Outcome(FALSE, "no_refs", FALSE, condition)
        ELSE IF sub.outcome # "substituted" THEN sub
        ELSE EvaluateExpression(sub.expr)

-----------------------------------------------------------------------------
(* Conditions of the grammar                                               *)
(*   expr := term (logical_op term)*,  term := placeholder cmp_op number   *)
(* as structures, their text, and their value under standard semantics.    *)

CmpOpChars ==
    (">" :> <<">">>) @@ ("<" :> <<"<">>) @@ (">=" :> <<">", "=">>)
        @@ ("<=" :> <<"<", "=">>) @@ ("==" :> <<"=", "=">>) @@ ("!=" :> <<"!", "=">>)

GrammarCmpOps == DOMAIN CmpOpChars

LogicalOpChars ==
    (" or " :> <<" ", "o", "r", " ">>) @@ (" and " :> <<" ", "a", "n", "d", " ">>)
        @@ ("||" :> <<"|", "|">>) @@ ("&&" :> <<"&", "&">>)
        @@ (" || " :> <<" ", "|", "|", " ">>) @@ (" && " :> <<" ", "&", "&", " ">>)

GrammarLogicalOps == DOMAIN LogicalOpChars

IsAndOp(l) == l \in {" and ", "&&", " && "}

Term(ref, op, num) == [ref |-> ref, op |-> op, num |-> num]

Cond(terms, lops) == [terms |-> terms, lops |-> lops]

(* a number of the condition text, given in tenths: "50", "-5", "36.4" *)
NumLit(n) ==
    IF n % 10 = 0
    THEN (IF n < 0 THEN <<"-">> ELSE <<>>) \o NatStr(Abs(n) \div 10)
    ELSE PyStr(n)

TermText(t) ==
    <<Placeholder[t.ref], " ">> \o CmpOpChars[t.op] \o <<" ">> \o NumLit(t.num)

RECURSIVE CondText(_)
CondText(c) ==
    IF c.lops = <<>> THEN TermText(c.terms[1])
    ELSE TermText(c.terms[1]) \o LogicalOpChars[c.lops[1]]
            \o CondText(Cond(Tail(c.terms), Tail(c.lops)))

TermHolds(t, db) ==
    LET v == db[t.ref].value
    IN  CASE t.op = ">"  -> v > t.num
          [] t.op = "<"  -> v < t.num
          [] t.op = ">=" -> v >= t.num
          [] t.op = "<=" -> v <= t.num
          [] t.op = "==" -> v = t.num
          [] OTHER       -> v # t.num

(* comparisons first, then AND, then OR: cur is the AND group being built *)
RECURSIVE OrOfAnds(_, _, _, _)
OrOfAnds(cur, terms, lops, db) ==
    IF lops = <<>> THEN cur
    ELSE IF IsAndOp(Head(lops))
    THEN OrOfAnds(cur /\ TermHolds(Head(terms), db), Tail(terms), Tail(lops), db)
    ELSE cur \/ OrOfAnds(TermHolds(Head(terms), db), Tail(terms), Tail(lops), db)

StandardValue(c, db) ==
    OrOfAnds(TermHolds(c.terms[1], db), Tail(c.terms), c.lops, db)

AllResolved(c, db) == \A i \in 1..Len(c.terms) : ~LacksData(db[c.terms[i].ref])

-----------------------------------------------------------------------------
(* The rules, the alert state store and one polling cycle *)

Rules == {1, 2}

(* AlertRule.cooldown_seconds of the two rules *)
cooldown_seconds == <<2, 1>>

ExampleCondition ==
    CondText(Cond(<<Term("m1", ">", 500), Term("m1", "<", 300)>>, <<" or ">>))

TwoMonitorCondition ==
    CondText(Cond(<<Term("m1", ">", 500), Term("m2", "<", 300)>>, <<" || ">>))

(* AlertRule.condition of the two rules *)
rule_condition == <<ExampleCondition, TwoMonitorCondition>>

(* the rules whose enabled flag is changed between cycles *)
SwitchedRules == {2}

(* what the datastore comes to hold for each monitor; values in tenths *)
MonitorStates ==
    [m1 |-> {NullValue, Sample(400), Sample(620)},
     m2 |-> {NoMonitor, Sample(200), Sample(400)}]

DatastoreStates ==
    {db \in [MonitorIds -> UNION {MonitorStates[m] : m \in MonitorIds}] :
        \A m \in MonitorIds : db[m] \in MonitorStates[m]}

VARIABLES
    alert_states,    \* self.alert_states: rule id -> entry, or Absent
    now,             \* datetime.utcnow(), in seconds
    metrics,         \* the datastore's monitors and their latest values
    enabled,         \* the rules with AlertRule.enabled
    configured,      \* PushoverService.is_configured()
    pc,              \* "idle", or "loop" inside the for loop of run
    queue,           \* alert_rules not yet reached by the for loop
    checked,         \* the rules the for loop of this cycle has been through
    failed,          \* the rules for which something raised in this cycle
    last,            \* what the most recent loop iteration did, and for which rule
    lastRun,         \* how the most recent call of run went
    notified,        \* per rule, when send_alert last returned true, or -1
    db_open,         \* the session of line 32 is open
    ev_in,           \* evaluator on its own: the condition given
    ev,              \* evaluator on its own: what it returned
    boundary,        \* _parse_condition_to_boundary on its own: what it returned
    tasks,           \* overlapping cycles: where each call of run is, and its `now`
    holder           \* overlapping cycles: the call the event loop is running, or 0

vars ==
    <<alert_states, now, metrics, enabled, configured, pc, queue,
      checked, failed, last, lastRun, notified, db_open, ev_in, ev, boundary, tasks, holder>>

envVars == <<now, metrics, enabled, configured>>

evVars == <<ev_in, ev, boundary>>

taskVars == <<tasks, holder>>

Absent == [present |-> FALSE, last_notified |-> 0, is_active |-> FALSE]

Entry(last_notified, is_active) ==
    [present |-> TRUE, last_notified |-> last_notified, is_active |-> is_active]

Obs(rule, result, outcome, evalCalled, suppressed, formatRaised, sends, sendResult) ==
    [rule |-> rule, result |-> result, outcome |-> outcome, evalCalled |-> evalCalled,
     suppressed |-> suppressed, formatRaised |-> formatRaised, sends |-> sends,
     sendResult |-> sendResult]

NoObs == Obs(0, "none", "none", FALSE, FALSE, FALSE, 0, "none")

NoEv == [done |-> FALSE, out |-> Outcome(FALSE, "none", FALSE, <<>>)]

(* the calls of run that may be in flight together *)
Cycles == {1, 2}

Task(at, t) == [at |-> at, t |-> t]

NoTask == Task("none", 0)

NoBoundary == [done |-> FALSE, text |-> <<>>]

NoInput == [grammar |-> FALSE, cond |-> Cond(<<>>, <<>>), condition |-> <<>>]

HasBeenNotified_always(rule_state) == TRUE

(* line 143: if last_notified *)
HasBeenNotified(rule_state) == rule_state.present

InCooldown_le(time_since_last, cooldown) == time_since_last <= cooldown

(* line 145 *)
InCooldown(time_since_last, cooldown) == time_since_last < cooldown

AfterSend_always(rule_state, sent, t) ==
    [present |-> TRUE, last_notified |-> t, is_active |-> TRUE]

(* is_active is set when the send is attempted, last_notified when it succeeds *)
AfterSend_activeFirst(rule_state, sent, t) ==
    IF sent = "ok" THEN [present |-> TRUE, last_notified |-> t, is_active |-> TRUE]
    ELSE IF rule_state.present THEN [rule_state EXCEPT !.is_active = TRUE]
    ELSE rule_state

(* lines 163-170 *)
AfterSend(rule_state, sent, t) ==
    IF sent = "ok" THEN Entry(t, TRUE) ELSE rule_state

ClearAlert_reset(rule_state) ==
    IF rule_state.present /\ rule_state.is_active
    THEN [present |-> FALSE, last_notified |-> 0, is_active |-> FALSE]
    ELSE rule_state

ClearAlert_create(rule_state) ==
    IF ~rule_state.present THEN [present |-> TRUE, last_notified |-> 0, is_active |-> FALSE]
    ELSE [rule_state EXCEPT !.is_active = FALSE]

ClearAlert_never(rule_state) == rule_state

(* lines 52-56 *)
ClearAlert(rule_state) ==
    IF rule_state.present /\ rule_state.is_active
    THEN [rule_state EXCEPT !.is_active = FALSE]
    ELSE rule_state

Handled(state, suppressed, formatRaised, sends, sendResult) ==
    [state |-> state, suppressed |-> suppressed, formatRaised |-> formatRaised,
     sends |-> sends, sendResult |-> sendResult]

(* a suppressed alert is marked active again *)
HandleTriggeredAlert_reactivate(rule_state, cooldown, t, formatRaises, sendOutcome) ==
    IF HasBeenNotified(rule_state)
        /\ InCooldown(t - rule_state.last_notified, cooldown)
    THEN Handled([rule_state EXCEPT !.is_active = TRUE], TRUE, FALSE, 0, "none")
    ELSE IF formatRaises THEN Handled(rule_state, FALSE, TRUE, 0, "none")
    ELSE Handled(AfterSend(rule_state, sendOutcome, t), FALSE, FALSE, 1, sendOutcome)

(* lines 136-173; formatRaises: _format_alert_message raises;              *)
(* sendOutcome: send_alert returns true ("ok"), returns false, or raises   *)
HandleTriggeredAlert(rule_state, cooldown, t, formatRaises, sendOutcome) ==
    IF HasBeenNotified(rule_state)
        /\ InCooldown(t - rule_state.last_notified, cooldown)
    THEN Handled(rule_state, TRUE, FALSE, 0, "none")
    ELSE IF formatRaises THEN Handled(rule_state, FALSE, TRUE, 0, "none")
    ELSE Handled(AfterSend(rule_state, sendOutcome, t), FALSE, FALSE, 1, sendOutcome)

(* line 48: what _evaluate_condition returns for each rule, by datastore state *)
RuleEvaluation ==
    [r \in Rules, db \in DatastoreStates |-> EvaluateCondition(rule_condition[r], db)]
        @@ <<>>

(* an expression that eval could not evaluate counts as triggered *)
IsTriggered_onError(e) == e.result \/ e.outcome = "eval_error"

(* lines 48-50: is_triggered *)
IsTriggered(e) == e.result

ProceedsToLoop_always(is_configured) == TRUE

(* lines 41-43 *)
ProceedsToLoop(is_configured) == is_configured

(* the session is closed on return, and not when run raises *)
OpenAfterRun_leak(raised) == raised

(* lines 65-66: whether the session is still open once run has ended *)
OpenAfterRun(raised) == FALSE

RestOfRules_abort(q, raised) == IF raised THEN <<>> ELSE Tail(q)

(* lines 58-60: the rules left after an iteration, whether it raised or not *)
RestOfRules(q, raised) == Tail(q)

-----------------------------------------------------------------------------
(* The checker: the environment's steps and the steps of run *)

Init ==
    /\ alert_states = [r \in Rules |-> Absent]
    /\ now = 0
    /\ metrics = [m1 |-> NullValue, m2 |-> NoMonitor]
    /\ enabled = Rules
    /\ configured = TRUE
    /\ pc = "idle"
    /\ queue = <<>>
    /\ checked = {}
    /\ failed = {}
    /\ last = NoObs
    /\ lastRun = "none"
    /\ db_open = FALSE
    /\ notified = [r \in Rules |-> -1]
    /\ ev_in = NoInput
    /\ ev = NoEv
    /\ boundary = NoBoundary
    /\ tasks = [k \in Cycles |-> NoTask]
    /\ holder = 0

(* the clock advances *)
Tick ==
    /\ now < MaxTime
    /\ now' = now + 1
    /\ UNCHANGED <<alert_states, metrics, enabled, configured, pc,
                   queue, checked, failed, last, lastRun, notified, db_open, ev_in, ev, boundary, tasks, holder>>

(* a monitor is created or deleted, or a new latest value is recorded *)
SetMetric ==
    \E m \in MonitorIds : \E md \in MonitorStates[m] :
        /\ metrics[m] # md
        /\ metrics' = [metrics EXCEPT ![m] = md]
        /\ UNCHANGED <<alert_states, now, enabled, configured, pc,
                       queue, checked, failed, last, lastRun, notified, db_open, ev_in, ev, boundary, tasks, holder>>

(* a rule is switched off or on; run reads the rules at line 35 *)
SetEnabled ==
    \E r \in SwitchedRules :
        /\ pc = "idle"
        /\ enabled' = IF r \in enabled THEN enabled \ {r} ELSE enabled \cup {r}
        /\ UNCHANGED <<alert_states, now, metrics, configured, pc,
                       queue, checked, failed, last, lastRun, notified, db_open, ev_in, ev, boundary, tasks, holder>>

SetConfigured ==
    /\ pc = "idle"
    /\ configured' = ~configured
    /\ UNCHANGED <<alert_states, now, metrics, enabled, pc, queue,
                   checked, failed, last, lastRun, notified, db_open, ev_in, ev, boundary, tasks, holder>>

(* the enabled rules in an order the query may return them in *)
Orders(S) ==
    {q \in [1..Cardinality(S) -> S] : \A i, j \in 1..Cardinality(S) : q[i] = q[j] => i = j}

(* lines 32-43 and 62-66 for a cycle that does not reach the loop *)
RunStart ==
    /\ pc = "idle"
    /\ \E loadRaises \in BOOLEAN, alert_rules \in Orders(enabled) :
        /\ checked' = {}
        /\ failed' = {}
        /\ IF loadRaises
           THEN /\ lastRun' = "raised"
                /\ db_open' = OpenAfterRun(TRUE)
                /\ UNCHANGED <<pc, queue>>
           ELSE IF ~ProceedsToLoop(configured)
           THEN /\ lastRun' = "skipped"
                /\ db_open' = OpenAfterRun(FALSE)
                /\ UNCHANGED <<pc, queue>>
           ELSE /\ lastRun' = "running"
                /\ db_open' = TRUE
                /\ pc' = "loop"
                /\ queue' = alert_rules
    /\ UNCHANGED <<alert_states, last, notified, envVars, evVars, taskVars>>

(* lines 46-60: the body of the for loop for one rule, e being what       *)
(* _evaluate_condition returns for it                                      *)
LoopBody(rule, e) ==
    \E evalRaises, formatRaises \in BOOLEAN, sendOutcome \in {"ok", "false", "raise"} :
        LET h == HandleTriggeredAlert(alert_states[rule], cooldown_seconds[rule],
                                      now, formatRaises, sendOutcome)
        IN  /\ IF evalRaises
               THEN /\ last' = Obs(rule, "raise", "raise", FALSE, FALSE, FALSE, 0, "none")
                    /\ UNCHANGED <<alert_states, notified>>
               ELSE IF IsTriggered(e)
               THEN /\ alert_states' = [alert_states EXCEPT ![rule] = h.state]
                    /\ last' = Obs(rule, "true", e.outcome, e.evalCalled, h.suppressed,
                                h.formatRaised, h.sends, h.sendResult)
                    /\ notified' = IF h.sendResult = "ok"
                                   THEN [notified EXCEPT ![rule] = now]
                                   ELSE notified
               ELSE /\ alert_states' = [alert_states EXCEPT ![rule] =
                                           ClearAlert(alert_states[rule])]
                    /\ last' = Obs(rule, "false", e.outcome, e.evalCalled, FALSE, FALSE,
                                0, "none")
                    /\ UNCHANGED notified
            /\ queue' = RestOfRules(queue,
                            evalRaises \/ (~evalRaises /\ IsTriggered(e) /\ h.formatRaised))
            /\ checked' = checked \cup {rule}
            /\ failed' = IF evalRaises
                             \/ (IsTriggered(e) /\ (h.formatRaised \/ h.sendResult = "raise"))
                         THEN failed \cup {rule}
                         ELSE failed

(* lines 45-60: one iteration of the for loop *)
StepRule ==
    /\ pc = "loop"
    /\ queue # <<>>
    /\ LoopBody(Head(queue), RuleEvaluation[Head(queue), metrics])
    /\ UNCHANGED <<pc, lastRun, db_open, envVars, evVars, taskVars>>

(* the loop is through: line 66, and run returns *)
RunEnd ==
    /\ pc = "loop"
    /\ queue = <<>>
    /\ pc' = "idle"
    /\ lastRun' = "completed"
    /\ db_open' = OpenAfterRun(FALSE)
    /\ UNCHANGED <<alert_states, queue, checked, failed, last, notified, envVars, evVars, taskVars>>

Next ==
    \/ Tick
    \/ SetMetric
    \/ SetEnabled
    \/ SetConfigured
    \/ RunStart
    \/ StepRule
    \/ RunEnd

Spec == Init /\ [][Next]_vars

-----------------------------------------------------------------------------
(* The evaluator on its own: a condition and a datastore state are drawn,   *)
(* and _evaluate_condition is applied to them.                              *)

MaxTerms == 3

ThresholdTenths == 500

AllTerms == {Term(m, op, ThresholdTenths) : m \in MonitorIds, op \in GrammarCmpOps}

(* the terms of a condition of several terms: the monitors alternate *)
JoinedTerms(i) ==
    {Term(IF i % 2 = 1 THEN "m1" ELSE "m2", op, ThresholdTenths) : op \in {">", "<="}}

GrammarConds(n) ==
    IF n = 1 THEN {Cond(<<t>>, <<>>) : t \in AllTerms}
    ELSE {Cond(ts, ls) :
            ts \in {f \in [1..n -> UNION {JoinedTerms(i) : i \in 1..n}] :
                        \A i \in 1..n : f[i] \in JoinedTerms(i)},
            ls \in [1..(n - 1) -> GrammarLogicalOps]}

GrammarInputs ==
    {[grammar |-> TRUE, cond |-> c, condition |-> CondText(c)] :
        c \in UNION {GrammarConds(n) : n \in 1..MaxTerms}}

P1 == Placeholder["m1"]

P2 == Placeholder["m2"]

(* condition texts outside the grammar *)
OtherConditions ==
    { <<P1, " ", ">", " ", "5", "0", ";", " ", "x">>,
      <<"(", P1, " ", ">", " ", "5", "0", ")">>,
      <<P1, " ", ">", " ", "5", "0", " ", "o", "r", " ", "e", "x", "(", ")">>,
      <<P1, " ", ">", " ", "5", "0", " ", "o", "r", " ", "r", "o">>,
      <<P1, " ", ">", " ", "5", "0", " ", "o", "r", " ", P2, " ", "!", "=", " ", "5", "0">>,
      <<"5", "0", " ", ">", " ", "3", "0">>,
      <<>>,
      <<P1>>,
      <<P1, " ", "-", " ", "5", "0">>,
      <<P1, " ", "|", " ", "3">>,
      <<"5", " ", "|", " ", "3", " ", ">", " ", P2>>,
      <<P1, " ", ">", " ", "5", "0", " ", "&", " ", "1">>,
      <<P1, " ", ">", " ", P2>>,
      <<P1, " ", "<", " ", "5", "0", " ", "<", " ", P2>> }

OtherInputs ==
    {[grammar |-> FALSE, cond |-> Cond(<<>>, <<>>), condition |-> c] :
        c \in OtherConditions}

EvalMonitorStates ==
    {NoMonitor, NoSample, NullValue, Sample(400), Sample(ThresholdTenths), Sample(620)}

EvalInit ==
    /\ ev_in \in GrammarInputs \cup OtherInputs
    /\ metrics \in [MonitorIds -> EvalMonitorStates]
    /\ ev = NoEv
    /\ boundary = NoBoundary
    /\ tasks = [k \in Cycles |-> NoTask]
    /\ holder = 0
    /\ alert_states = [r \in Rules |-> Absent]
    /\ now = 0
    /\ enabled = Rules
    /\ configured = TRUE
    /\ pc = "idle"
    /\ queue = <<>>
    /\ checked = {}
    /\ failed = {}
    /\ last = NoObs
    /\ lastRun = "none"
    /\ db_open = FALSE
    /\ notified = [r \in Rules |-> -1]

(* is_triggered = await self._evaluate_condition(rule, db) *)
Evaluate ==
    /\ ~ev.done
    /\ ev' = [done |-> TRUE, out |-> EvaluateCondition(ev_in.condition, metrics)]
    /\ UNCHANGED <<ev_in, boundary, alert_states, now, metrics, enabled, configured, pc, queue,
                   checked, failed, last, lastRun, notified, db_open,
                   tasks, holder>>

EvalNext == Evaluate

EvalSpec == EvalInit /\ [][EvalNext]_vars

-----------------------------------------------------------------------------
(* The loop body for a rule of any condition: ev_in is the rule's condition *)

MaxRuleTerms == 2

RuleInputs ==
    {i \in GrammarInputs : Len(i.cond.terms) <= MaxRuleTerms} \cup OtherInputs

GivenRule == CHOOSE r \in Rules : \A q \in Rules : r <= q

(* a cycle that has just loaded GivenRule as the only enabled rule *)
RuleInit ==
    /\ ev_in \in RuleInputs
    /\ metrics \in [MonitorIds -> EvalMonitorStates]
    /\ \E st \in {Absent, Entry(0, TRUE)} :
        /\ alert_states = [r \in Rules |-> IF r = GivenRule THEN st ELSE Absent]
        /\ notified = [r \in Rules |-> IF r = GivenRule /\ st.present THEN 0 ELSE -1]
    /\ now = 0
    /\ enabled = {GivenRule}
    /\ configured = TRUE
    /\ pc = "loop"
    /\ queue = <<GivenRule>>
    /\ checked = {}
    /\ failed = {}
    /\ last = NoObs
    /\ lastRun = "running"
    /\ db_open = TRUE
    /\ ev = NoEv
    /\ boundary = NoBoundary
    /\ tasks = [k \in Cycles |-> NoTask]
    /\ holder = 0

(* lines 45-60 for a rule whose condition is ev_in.condition *)
StepGiven ==
    /\ pc = "loop"
    /\ queue # <<>>
    /\ LoopBody(Head(queue), EvaluateCondition(ev_in.condition, metrics))
    /\ UNCHANGED <<pc, lastRun, db_open, envVars, evVars, taskVars>>

RuleNext == StepGiven \/ RunEnd

RuleSpec == RuleInit /\ [][RuleNext]_vars

-----------------------------------------------------------------------------
(* Two calls of run in flight on one event loop, each with GivenRule as    *)
(* its only rule. A call keeps the loop until one of its awaits hands the  *)
(* loop back.                                                              *)

(* _format_alert_message awaits something that suspends *)
Yields_atFormat(point) == point = "format"

(* line 150: whether the await hands the event loop to another task; the   *)
(* coroutine of lines 175-221 awaits nothing, and neither does that of     *)
(* lines 68-134 awaited at line 48                                         *)
Yields(point) == FALSE

OverlapMetrics == {[m1 |-> v, m2 |-> NoMonitor] : v \in {Sample(400), Sample(620)}}

OverlapInit ==
    /\ tasks = [k \in Cycles |-> Task("ready", 0)]
    /\ holder = 0
    /\ metrics \in OverlapMetrics
    /\ \E st \in {Absent, Entry(0, TRUE)} :
        /\ alert_states = [r \in Rules |-> IF r = GivenRule THEN st ELSE Absent]
        /\ notified = [r \in Rules |-> IF r = GivenRule /\ st.present THEN 0 ELSE -1]
    /\ now = 0
    /\ enabled = {GivenRule}
    /\ configured = TRUE
    /\ pc = "idle"
    /\ queue = <<>>
    /\ checked = {}
    /\ failed = {}
    /\ last = NoObs
    /\ lastRun = "none"
    /\ db_open = FALSE
    /\ ev_in = NoInput
    /\ ev = NoEv
    /\ boundary = NoBoundary

(* lines 48-56 and 138-147 of call k: up to the await of line 150 *)
TaskCheck(k) ==
    /\ tasks[k].at = "ready"
    /\ holder \in {0, k}
    /\ LET e  == RuleEvaluation[GivenRule, metrics]
           st == alert_states[GivenRule]
       IN  IF ~IsTriggered(e)
           THEN /\ alert_states' = [alert_states EXCEPT ![GivenRule] = ClearAlert(st)]
                /\ last' = Obs(GivenRule, "false", e.outcome, e.evalCalled, FALSE, FALSE,
                               0, "none")
                /\ tasks' = [tasks EXCEPT ![k] = Task("done", now)]
                /\ holder' = 0
           ELSE IF HasBeenNotified(st)
                    /\ InCooldown(now - st.last_notified, cooldown_seconds[GivenRule])
           THEN /\ last' = Obs(GivenRule, "true", e.outcome, e.evalCalled, TRUE, FALSE,
                               0, "none")
                /\ tasks' = [tasks EXCEPT ![k] = Task("done", now)]
                /\ holder' = 0
                /\ UNCHANGED alert_states
           ELSE /\ tasks' = [tasks EXCEPT ![k] = Task("format", now)]
                /\ holder' = IF Yields("format") THEN 0 ELSE k
                /\ UNCHANGED <<alert_states, last>>
    /\ UNCHANGED <<notified, pc, queue, checked, failed, lastRun, db_open, envVars, evVars>>

(* lines 150-173 of call k: from the return of _format_alert_message on *)
TaskSend(k) ==
    /\ tasks[k].at = "format"
    /\ holder \in {0, k}
    /\ \E formatRaises \in BOOLEAN, sendOutcome \in {"ok", "false", "raise"} :
        IF formatRaises
        THEN /\ last' = Obs(GivenRule, "true", "evaluated", TRUE, FALSE, TRUE, 0, "none")
             /\ UNCHANGED <<alert_states, notified>>
        ELSE /\ alert_states' = [alert_states EXCEPT ![GivenRule] =
                                    AfterSend(alert_states[GivenRule], sendOutcome,
                                              tasks[k].t)]
             /\ notified' = IF sendOutcome = "ok"
                            THEN [notified EXCEPT ![GivenRule] = tasks[k].t]
                            ELSE notified
             /\ last' = Obs(GivenRule, "true", "evaluated", TRUE, FALSE, FALSE, 1,
                            sendOutcome)
    /\ tasks' = [tasks EXCEPT ![k] = Task("done", tasks[k].t)]
    /\ holder' = 0
    /\ UNCHANGED <<pc, queue, checked, failed, lastRun, db_open, envVars, evVars>>

(* the clock, with the calls in flight *)
TaskTick ==
    /\ now < MaxTime
    /\ now' = now + 1
    /\ UNCHANGED <<alert_states, metrics, enabled, configured, pc, queue, checked,
                   failed, last, lastRun, notified, db_open, evVars, taskVars>>

OverlapNext ==
    \/ TaskTick
    \/ \E k \in Cycles : TaskCheck(k)
    \/ \E k \in Cycles : TaskSend(k)

OverlapSpec == OverlapInit /\ [][OverlapNext]_vars

-----------------------------------------------------------------------------
(* The boundary line of the message *)

Whitespace == {" "}

(* line 234: re.sub(r'\$\{monitor:[^}]+\}\s*', '', condition) *)
RECURSIVE StripPlaceholders(_)
StripPlaceholders(s) ==
    IF s = <<>> THEN <<>>
    ELSE IF IsPlaceholder(Head(s))
    THEN StripPlaceholders(Drop(s, 1 + RunLen(Tail(s), Whitespace)))
    ELSE <<Head(s)>> \o StripPlaceholders(Tail(s))

(* lines 223-242 *)
ParseConditionToBoundary(condition) ==
    LET s0 == StripPlaceholders(condition)
        s1 == Replace(s0, <<" ", "o", "r", " ">>, <<" ", "O", "R", " ">>)
        s2 == Replace(s1, <<" ", "a", "n", "d", " ">>, <<" ", "A", "N", "D", " ">>)
        s3 == Replace(s2, <<"|", "|">>, <<" ", "O", "R", " ">>)
    IN  Replace(s3, <<"&", "&">>, <<" ", "A", "N", "D", " ">>)

RenderInit ==
    /\ ev_in \in GrammarInputs \cup OtherInputs
    /\ metrics = [m1 |-> Sample(620), m2 |-> Sample(400)]
    /\ ev = NoEv
    /\ boundary = NoBoundary
    /\ tasks = [k \in Cycles |-> NoTask]
    /\ holder = 0
    /\ alert_states = [r \in Rules |-> Absent]
    /\ now = 0
    /\ enabled = Rules
    /\ configured = TRUE
    /\ pc = "idle"
    /\ queue = <<>>
    /\ checked = {}
    /\ failed = {}
    /\ last = NoObs
    /\ lastRun = "none"
    /\ db_open = FALSE
    /\ notified = [r \in Rules |-> -1]

(* line 213: boundary = self._parse_condition_to_boundary(rule.condition) *)
Render ==
    /\ ~boundary.done
    /\ boundary' = [done |-> TRUE, text |-> ParseConditionToBoundary(ev_in.condition)]
    /\ UNCHANGED <<ev_in, ev, alert_states, now, metrics, enabled, configured, pc,
                   queue, checked, failed, last, lastRun, notified, db_open,
                   tasks, holder>>

RenderNext == Render

RenderSpec == RenderInit /\ [][RenderNext]_vars

-----------------------------------------------------------------------------
(* Properties of the state machine and of the loop, under Spec *)

(* the step is the loop iteration for rule r *)
Stepped(r) == pc = "loop" /\ queue # <<>> /\ Head(queue) = r /\ queue' # queue

(* the cycle ends *)
Returned == pc = "loop" /\ pc' = "idle"

DispatchFailed(o) == o.sendResult \in {"false", "raise"}

(* never notified, or the cooldown has elapsed *)
Eligible(r) ==
    \/ ~alert_states[r].present
    \/ now - alert_states[r].last_notified >= cooldown_seconds[r]

(* C1, as stated: after an accepted notification at T = notified[r], an   *)
(* iteration at T + c in which the condition is true sends nothing when    *)
(* c < cooldown and sends when c >= cooldown.                              *)
C1_Original ==
    [][\A r \in Rules :
        (Stepped(r) /\ notified[r] >= 0 /\ last'.result = "true") =>
            IF now - notified[r] < cooldown_seconds[r]
            THEN last'.sends = 0
            ELSE last'.sends = 1]_vars

(* C1, amended: after an accepted notification at T = notified[r], an      *)
(* iteration at T + c in which the condition is true sends nothing when    *)
(* c < cooldown, and when c >= cooldown (equality included) it sends,      *)
(* unless building the message raises.                                     *)
C1_CooldownLaw ==
    [][\A r \in Rules :
        (Stepped(r) /\ notified[r] >= 0 /\ last'.result = "true") =>
            IF now - notified[r] < cooldown_seconds[r]
            THEN last'.sends = 0
            ELSE last'.formatRaised \/ last'.sends = 1]_vars

(* a send made exactly cooldown seconds after the last accepted one *)
C1_Witness ==
    /\ last.rule = 1 /\ last.result = "true"
    /\ last.sends = 1 /\ last.sendResult = "false"
    /\ alert_states[1].present
    /\ notified[1] = alert_states[1].last_notified
    /\ now - notified[1] = cooldown_seconds[1]

(* C2: two accepted notifications of one rule are at least the rule's      *)
(* cooldown apart, whatever happened in between (a clear included): each   *)
(* accepted one comes no sooner than cooldown after the one before.        *)
C2_AtMostOnePerWindow ==
    [][\A r \in Rules :
        (Stepped(r) /\ last'.sendResult = "ok" /\ notified[r] >= 0) =>
            now - notified[r] >= cooldown_seconds[r]]_vars

(* cleared, true again inside the window, and suppressed *)
C2_Witness ==
    /\ last.rule \in Rules /\ last.result = "true" /\ last.suppressed
    /\ alert_states[last.rule].present
    /\ ~alert_states[last.rule].is_active
    /\ now - notified[last.rule] < cooldown_seconds[last.rule]

(* C3: when send returns false or raises, the whole store is what it was   *)
(* before the iteration; and when the iteration before for the same rule   *)
(* ended in such a failure and the condition is true again, the iteration  *)
(* is not suppressed by cooldown: it goes on to build the message, and     *)
(* sends unless that raises.                                               *)
C3_FailureKeepsState ==
    [][\A r \in Rules : Stepped(r) =>
        /\ DispatchFailed(last') =>
              (alert_states' = alert_states /\ notified' = notified)
        /\ (last.rule = r /\ DispatchFailed(last) /\ last'.result = "true") =>
              (~last'.suppressed /\ (last'.formatRaised \/ last'.sends = 1))]_vars

(* a failed send for a rule whose entry is inactive and old: it stays so *)
C3_Witness ==
    /\ last.rule \in Rules /\ last.sends = 1 /\ DispatchFailed(last)
    /\ alert_states[last.rule].present
    /\ ~alert_states[last.rule].is_active
    /\ alert_states[last.rule].last_notified < now

(* C4: an iteration whose evaluation is not-triggered sends nothing; an    *)
(* active entry becomes inactive with last_notified as it was; an inactive *)
(* or absent entry, and every other rule's entry, stay as they were.       *)
C4_ClearTransition ==
    [][\A r \in Rules : (Stepped(r) /\ last'.result = "false") =>
        /\ last'.sends = 0
        /\ notified' = notified
        /\ alert_states' =
              [alert_states EXCEPT ![r] =
                  IF @.present /\ @.is_active
                  THEN [present |-> TRUE, last_notified |-> @.last_notified,
                        is_active |-> FALSE]
                  ELSE @]]_vars

(* a rule that has been notified and has been cleared since *)
C4_Witness ==
    /\ last.rule \in Rules /\ last.result = "false"
    /\ alert_states[last.rule].present
    /\ ~alert_states[last.rule].is_active
    /\ notified[last.rule] = alert_states[last.rule].last_notified

(* C5: the loop runs only with a configured transport; a step taken while  *)
(* idle and unconfigured (a call of run among them) starts no loop,        *)
(* evaluates no rule, sends nothing and leaves the store as it is.         *)
C5_UnconfiguredSkips ==
    /\ [](pc = "loop" => configured)
    /\ [][(pc = "idle" /\ ~configured) =>
            /\ pc' = "idle" /\ lastRun' # "running"
            /\ alert_states' = alert_states
            /\ last' = last
            /\ notified' = notified]_vars

(* a skipped cycle that left an active alert whose condition is now false *)
C5_Witness ==
    /\ lastRun = "skipped" /\ ~configured /\ pc = "idle"
    /\ \E r \in enabled :
        /\ alert_states[r].present /\ alert_states[r].is_active
        /\ ~RuleEvaluation[r, metrics].result

(* C6: an iteration, raising or not, leaves the loop running with the rest *)
(* of the rules still to come and touches no other rule's entry; one in    *)
(* which something raised leaves the whole store as it was; and the cycle  *)
(* returns normally, having been through every enabled rule.               *)
C6_FaultIsolation ==
    [][/\ \A r \in Rules : Stepped(r) =>
            /\ pc' = "loop" /\ lastRun' = "running"
            /\ queue' = Tail(queue)
            /\ checked' = checked \cup {r}
            /\ \A q \in Rules \ {r} : alert_states'[q] = alert_states[q]
            /\ r \in failed' => alert_states' = alert_states
       /\ Returned => (lastRun' = "completed" /\ checked = enabled)]_vars

(* one rule raised, the rule after it was notified, the cycle completed *)
C6_Witness ==
    /\ lastRun = "completed" /\ checked = Rules
    /\ failed # {} /\ last.rule \notin failed
    /\ last.sendResult = "ok"

(* C10, as stated: each enabled rule has one iteration per cycle, and it   *)
(* invokes send once when the condition is true and the rule is eligible,  *)
(* and not at all otherwise.                                               *)
C10_Original ==
    [][/\ \A r \in Rules : Stepped(r) =>
            /\ r \in enabled /\ r \notin checked
            /\ last'.sends = IF last'.result = "true" /\ Eligible(r) THEN 1 ELSE 0
       /\ Returned => checked = enabled]_vars

(* C10, amended: each enabled rule has one iteration per cycle, and it     *)
(* invokes send once when the condition is true, the rule is eligible and  *)
(* building the message does not raise, and not at all otherwise.          *)
C10_OneSendPerEligibleCycle ==
    [][/\ \A r \in Rules : Stepped(r) =>
            /\ r \in enabled /\ r \notin checked
            /\ last'.sends =
                  IF last'.result = "true" /\ Eligible(r) /\ ~last'.formatRaised
                  THEN 1 ELSE 0
       /\ Returned => checked = enabled]_vars

(* a completed cycle over both rules whose last iteration was notified *)
C10_Witness ==
    /\ lastRun = "completed" /\ checked = Rules /\ failed = {}
    /\ last.rule \in Rules /\ last.result = "true"
    /\ last.sends = 1 /\ last.sendResult = "ok"
    /\ alert_states[last.rule].last_notified = now

-----------------------------------------------------------------------------
(* Properties of the evaluator, under EvalSpec *)

(* the monitors the given condition refers to *)
Referenced == {RefId(ev_in.condition[i]) :
                  i \in {j \in 1..Len(ev_in.condition) : IsPlaceholder(ev_in.condition[j])}}

(* the condition after line 110, when every referenced monitor has a value *)
Substituted == Substitute(FindRefs(ev_in.condition), ev_in.condition, metrics).expr

(* section 4.1 step 4 of the specification, character by character *)
SpecWhitelist ==
    Digits \cup {".", ">", "<", "=", "!", "|", "&", "o", "r", "a", "n", "d", " ", "-"}

(* C7: when a referenced monitor does not exist, has no sample or has a    *)
(* null latest value, the evaluator returns not-triggered (it has no       *)
(* raising path), and evaluates nothing, whatever the other monitors hold  *)
(* and whatever the rest of the condition is.                              *)
C7_MissingData ==
    (ev.done /\ \E m \in Referenced : LacksData(metrics[m])) =>
        /\ ~ev.out.result
        /\ ~ev.out.evalCalled
        /\ ev.out.outcome \in {"no_monitor", "no_value"}

(* m1 > 50 holds, m2 has a null value, in a condition joined by || *)
C7_Witness ==
    /\ ev.done /\ ev_in.grammar
    /\ Len(ev_in.cond.terms) = 2 /\ ev_in.cond.lops = <<" || ">>
    /\ metrics["m1"] = Sample(620) /\ TermHolds(ev_in.cond.terms[1], metrics)
    /\ metrics["m2"] = NullValue
    /\ ev.out.outcome = "no_value"

(* C8: when the substituted expression holds a character outside the       *)
(* whitelist, eval is not called and the result is not-triggered.          *)
C8_SafetyBoundary ==
    (/\ ev.done
     /\ \A m \in Referenced : ~LacksData(metrics[m])
     /\ LET expression == Substituted
        IN  \E i \in 1..Len(expression) : expression[i] \notin SpecWhitelist) =>
        (~ev.out.evalCalled /\ ~ev.out.result)

(* a semicolon after a comparison that holds *)
C8_Witness ==
    /\ ev.done
    /\ \E i \in 1..Len(ev_in.condition) : ev_in.condition[i] = ";"
    /\ metrics["m1"] = Sample(620)
    /\ ev.out.outcome = "unsafe"

(* C9: for a condition of the grammar whose monitors all have values, the  *)
(* evaluator returns the value of the expression under standard semantics, *)
(* whichever spelling the logical operators have.                          *)
C9_EvaluatorCorrect ==
    (ev.done /\ ev_in.grammar /\ AllResolved(ev_in.cond, metrics)) =>
        ev.out.result = StandardValue(ev_in.cond, metrics)

-----------------------------------------------------------------------------
(* Claims about the alert state store, checked under Spec *)

(* the send of this step for rule r returned true *)
Dispatched(r) == Stepped(r) /\ last'.rule = r /\ last'.sends = 1 /\ last'.sendResult = "ok"

(* C11: the store holds one entry or none for each rule id; a rule has an  *)
(* entry only if a notification for it has been dispatched; an entry is    *)
(* never deleted; and last_notified changes only in a step that dispatched *)
(* a notification for that rule, and becomes the time of that step.        *)
C11_EntryInvariant ==
    /\ [](DOMAIN alert_states = Rules
            /\ \A r \in Rules : alert_states[r].present => notified[r] >= 0)
    /\ [][\A r \in Rules :
            /\ alert_states[r].present => alert_states'[r].present
            /\ (alert_states'[r].present /\
                    (~alert_states[r].present
                        \/ alert_states'[r].last_notified # alert_states[r].last_notified))
                => (Dispatched(r) /\ alert_states'[r].last_notified = now)]_vars

(* an entry of an earlier notification that has since been cleared *)
C11_Witness ==
    \E r \in Rules :
        /\ alert_states[r].present /\ ~alert_states[r].is_active
        /\ alert_states[r].last_notified = notified[r]
        /\ now > notified[r] /\ notified[r] > 0
        /\ last.rule = r /\ last.result = "false"

-----------------------------------------------------------------------------
(* Claims about the boundary line, checked under RenderSpec *)

(* the compact form: each term as its operator and number, OR / AND between *)
RECURSIVE CompactBoundary(_)
CompactBoundary(c) ==
    LET t == c.terms[1]
        head == CmpOpChars[t.op] \o NumLit(t.num)
    IN  IF c.lops = <<>> THEN head
        ELSE head
              \o (IF IsAndOp(c.lops[1]) THEN <<" ", "A", "N", "D", " ">>
                  ELSE <<" ", "O", "R", " ">>)
              \o CompactBoundary(Cond(Tail(c.terms), Tail(c.lops)))

(* C12: the boundary line of a condition of the grammar is its compact     *)
(* form: placeholders and the whitespace after them removed, logical       *)
(* operators written OR / AND; `${monitor:x} > 50 or ${monitor:x} < 30`     *)
(* gives exactly `>50 OR <30`.                                             *)
C12_BoundaryRendering ==
    (boundary.done /\ ev_in.grammar) =>
        /\ boundary.text = CompactBoundary(ev_in.cond)
        /\ ev_in.condition = ExampleCondition =>
              boundary.text = <<">", "5", "0", " ", "O", "R", " ", "<", "3", "0">>

-----------------------------------------------------------------------------
(* Claims about what reaches eval, checked under EvalSpec *)

(* a number, or a minus sign and a number *)
OperandLen(ts) ==
    IF HeadIs(ts, {"num"}) THEN 1
    ELSE IF HeadIs(ts, {"-"}) /\ HeadIs(Tail(ts), {"num"}) THEN 2
    ELSE 0

(* number cmp_op number, joined by logical operators *)
RECURSIVE IsComparisons(_)
IsComparisons(ts) ==
    LET a  == OperandLen(ts)
        r1 == Drop(ts, a)
        b  == OperandLen(Tail(r1))
        r2 == Drop(Tail(r1), b)
    IN  /\ a > 0
        /\ HeadIs(r1, CmpOps)
        /\ b > 0
        /\ (r2 = <<>> \/ (HeadIs(r2, {"or", "and"}) /\ IsComparisons(Tail(r2))))

(* C16: eval is called only on numeric comparisons joined by logical       *)
(* operators; any other expression of whitelisted characters (a bare       *)
(* number, a subtraction, a single | or & between numbers) is not          *)
(* evaluated and does not trigger.                                         *)
C16_ClosedGrammar ==
    (ev.done /\ (ev.out.evalCalled \/ ev.out.result)) =>
        IsComparisons(Lex(ev.out.expr))

-----------------------------------------------------------------------------
(* Claims about suppression, checked under Spec *)

(* rule r is stepped, its condition is true, and less than its cooldown    *)
(* has passed since its last_notified                                      *)
TriggeredInCooldown(r) ==
    /\ Stepped(r) /\ last'.rule = r /\ last'.result = "true"
    /\ alert_states[r].present
    /\ now - alert_states[r].last_notified < cooldown_seconds[r]

(* C14 as stated: such a step sends nothing, changes nothing, and leaves   *)
(* the entry with is_active = true, also when the condition had turned     *)
(* false and true again since the last notification.                       *)
C14_Original ==
    [][\A r \in Rules : TriggeredInCooldown(r) =>
            /\ last'.sends = 0
            /\ alert_states' = alert_states
            /\ alert_states'[r].is_active]_vars

(* C14: such a step sends nothing and changes nothing in the store: the    *)
(* entry stays as it was, with is_active = true when it was true, and      *)
(* with is_active = false when the alert had been cleared in between.      *)
C14_SuppressionKeepsState ==
    [][\A r \in Rules : TriggeredInCooldown(r) =>
            /\ last'.suppressed
            /\ last'.sends = 0
            /\ alert_states' = alert_states
            /\ notified' = notified
            /\ alert_states'[r].is_active = alert_states[r].is_active]_vars

(* a suppressed step for a rule whose alert had been cleared *)
C14_Witness ==
    \E r \in Rules :
        /\ last.rule = r /\ last.result = "true" /\ last.suppressed
        /\ alert_states[r].present /\ ~alert_states[r].is_active
        /\ now - alert_states[r].last_notified < cooldown_seconds[r]

-----------------------------------------------------------------------------
(* Claims about error results, checked under RuleSpec *)

ErrorOutcomes == {"no_refs", "no_monitor", "no_value", "unsafe", "eval_error"}

(* what a false result does to an entry *)
Cleared(rule_state) ==
    IF rule_state.present /\ rule_state.is_active
    THEN Entry(rule_state.last_notified, FALSE)
    ELSE rule_state

(* C17: when the evaluator's outcome for a rule is one of the error        *)
(* outcomes, the loop handles the rule as for a false result: nothing is   *)
(* sent, nothing raises, and an active entry is cleared to is_active =     *)
(* false, everything else staying as it is.                                *)
C17_ErrorsAreFalse ==
    [][\A r \in Rules :
            (Stepped(r) /\ last'.rule = r /\ last'.outcome \in ErrorOutcomes) =>
                /\ last'.result = "false"
                /\ last'.sends = 0
                /\ failed' = failed
                /\ notified' = notified
                /\ alert_states' = [alert_states EXCEPT ![r] = Cleared(alert_states[r])]]_vars

(* an active entry cleared by an expression eval could not evaluate *)
C17_Witness ==
    /\ last.rule = GivenRule /\ last.outcome = "eval_error" /\ last.evalCalled
    /\ last.result = "false" /\ last.sends = 0
    /\ alert_states[GivenRule] = Entry(0, FALSE)

-----------------------------------------------------------------------------
(* Claims about the cycle as a whole, checked under Spec *)

(* C18: when loading the rules, or building or asking the transport,       *)
(* raises before the loop, run re-raises: nothing is sent, the alert state *)
(* store stays as it is, the session is closed, and the checker is ready   *)
(* for the next cycle, which starts from the unchanged store.              *)
C18_CycleFailure ==
    /\ [](lastRun = "raised" => (pc = "idle" /\ ~db_open /\ ENABLED RunStart))
    /\ [][(pc = "idle" /\ lastRun' = "raised") =>
            /\ alert_states' = alert_states
            /\ notified' = notified
            /\ last' = last
            /\ pc' = "idle"
            /\ ~db_open']_vars

(* a cycle that raised while the store held an active entry *)
C18_Witness ==
    /\ lastRun = "raised" /\ pc = "idle" /\ ~db_open
    /\ \E r \in Rules : alert_states[r].present /\ alert_states[r].is_active

-----------------------------------------------------------------------------
(* Claims about is_active, checked under Spec *)

IsActive(st) == st.present /\ st.is_active

(* C19: an entry with is_active = true belongs to a rule whose most recent *)
(* evaluation that returned a result returned true, and for which a        *)
(* notification was sent successfully at its last_notified; is_active      *)
(* becomes true only in the assignment that sets last_notified. A rule's   *)
(* most recent evaluation is the last step of the loop for it: the first   *)
(* conjunct speaks of the rule stepped last, the second of every step that *)
(* returns false, the third of every step that sets is_active.             *)
C19_ActiveMeansTriggered ==
    /\ [](\A r \in Rules : IsActive(alert_states[r]) =>
            /\ notified[r] = alert_states[r].last_notified
            /\ (last.rule = r /\ last.result \in {"true", "false"}) => last.result = "true")
    /\ [][\A r \in Rules :
            (Stepped(r) /\ last'.rule = r /\ last'.result = "false") =>
                ~IsActive(alert_states'[r])]_vars
    /\ [][\A r \in Rules :
            (~IsActive(alert_states[r]) /\ IsActive(alert_states'[r])) =>
                /\ Dispatched(r) /\ last'.result = "true"
                /\ alert_states'[r].last_notified = now
                /\ notified'[r] = now]_vars

(* an active entry of an earlier notification, its rule just evaluated    *)
(* true again and held back by the cooldown                                *)
C19_Witness ==
    \E r \in Rules :
        /\ IsActive(alert_states[r])
        /\ notified[r] = alert_states[r].last_notified
        /\ alert_states[r].last_notified < now
        /\ last.rule = r /\ last.result = "true" /\ last.suppressed

-----------------------------------------------------------------------------
(* Claims about overlapping cycles, checked under OverlapSpec *)

(* call k gets true from send_alert in this step *)
TaskDispatches(k) ==
    /\ tasks[k].at = "format" /\ tasks'[k].at = "done"
    /\ last'.sends = 1 /\ last'.sendResult = "ok"

(* C15: with two cycles in flight, no cycle checks the rule's cooldown     *)
(* between another cycle's read of last_notified and its write after the   *)
(* send, and so no cycle dispatches within the cooldown of a notification  *)
(* another has dispatched.                                                 *)
C15_NoCooldownRace ==
    /\ [](\A j, k \in Cycles :
            j # k => ~(tasks[j].at = "format" /\ tasks[k].at = "format"))
    /\ [][\A k \in Cycles : TaskDispatches(k) =>
            \/ notified[GivenRule] = -1
            \/ tasks[k].t - notified[GivenRule] >= cooldown_seconds[GivenRule]]_vars

(* both cycles are through: one has dispatched at the present time, the    *)
(* other found the rule in cooldown                                        *)
C15_Witness ==
    /\ \A k \in Cycles : tasks[k].at = "done" /\ tasks[k].t = now
    /\ now > 0
    /\ notified[GivenRule] = now
    /\ alert_states[GivenRule] = Entry(now, TRUE)
    /\ last.suppressed

=============================================================================
